---- MODULE Spec2Model ----
(***************************************************************************)
(* Model of the emergency-contraception pharmacy finder:                   *)
(*   - docs/app.js      : the static web search page                        *)
(*   - line_bot (index) : the LINE bot sample                               *)
(*                                                                         *)
(* Text is modelled as a sequence of UTF-16 code units (integers), so that *)
(* case folding, width folding, hyphen folding, whitespace collapsing and   *)
(* substring search are computed as the JavaScript computes them.           *)
(* The JavaScript values null and undefined are encoded as the one-element  *)
(* sequences <<-1>> and <<-2>>, which no string can equal.                  *)
(***************************************************************************)
EXTENDS Integers, Sequences, FiniteSets, TLC

VARIABLES
    \* ---- text normalizer harness ----
    nWhich,      \* which normalizer is exercised: "web" or "bot"
    nOrig,       \* the input it was first given
    nText,       \* the current value
    nSteps,      \* how many times the normalizer has been applied (0..2)
    \* ---- web page (docs/app.js) ----
    json,            \* data.json as served
    loadState,       \* init(): "pending" (fetch in flight), "done", "failed"
    DATA,            \* let DATA = []
    CURRENT_ROWS,    \* let CURRENT_ROWS = []
    CURRENT_LIMIT,   \* let CURRENT_LIMIT = RESULTS_STEP
    prefOptions,     \* <select id="prefSelect">: option values after "(none)"
    prefSelect,      \* <select id="prefSelect">.value
    q,               \* <input id="q">.value
    onlyCallAhead,   \* <input id="onlyCallAhead">.checked
    onlyAfterHours,  \* <input id="onlyAfterHours">.checked
    list,            \* <ul id="list">: the rendered rows
    pagerBtn,        \* whether #pager holds the "show more" button
    pagerRows,       \* the rows captured by the button's click closure
    status,          \* #status text, as [kind, total, shown]
    \* ---- LINE bot ----
    botDATA,     \* const DATA
    PREFS,       \* const PREFS
    event,       \* the event handleEvent was last called with
    detected,    \* search's local pref (the result of detectPref)
    hits,        \* handleEvent's local hits (the result of search)
    reply        \* what handleEvent last gave to client.replyMessage

normVars == <<nWhich, nOrig, nText, nSteps>>
webVars == <<json, loadState, DATA, CURRENT_ROWS, CURRENT_LIMIT, prefOptions,
             prefSelect, q, onlyCallAhead, onlyAfterHours, list, pagerBtn,
             pagerRows, status>>
botVars == <<botDATA, PREFS, event, detected, hits, reply>>
vars == <<normVars, webVars, botVars>>

-----------------------------------------------------------------------------
(* Bounds of the model *)

\* longest enumerated input string of the normalizer harness
MaxLen == 3

\* longest enumerated snapshot of the web page
MaxRecs == 2

\* size of the large snapshot of the paged specification
BigN == 450

\* longest enumerated snapshot of the bot
MaxBotRecs == 2

\* size of the bot's large snapshot
BotBigN == 12

-----------------------------------------------------------------------------
(* JavaScript values and string primitives *)

Null == <<-1>>
Undefined == <<-2>>

\* v == null  (true of null and undefined)
IsNullish(v) == v = Null \/ v = Undefined

\* Boolean(v) for a string-or-nullish value: non-empty strings are truthy
Truthy(v) == ~IsNullish(v) /\ v # <<>>

\* (s || "")
OrEmpty(v) == IF Truthy(v) THEN v ELSE <<>>

Min(a, b) == IF a < b THEN a ELSE b

\* every sequence over S of length at most n
RECURSIVE SeqsUpTo(_, _)
SeqsUpTo(S, n) ==
    IF n = 0 THEN {<<>>}
    ELSE LET shorter == SeqsUpTo(S, n - 1)
         IN shorter \cup {Append(s, c) : s \in {t \in shorter : Len(t) = n - 1}, c \in S}

\* the characters matched by \s, which are also those String.prototype.trim strips
WhiteSpace ==
    {9, 10, 11, 12, 13, 32, 160, 5760} \cup (8192 .. 8202)
        \cup {8232, 8233, 8239, 8287, 12288, 65279}

IsSpace(c) == c \in WhiteSpace

\* String.prototype.toLowerCase on one code unit: ASCII A-Z and the
\* full-width forms U+FF21..U+FF3A have simple lower-case mappings (+0x20)
toLowerCaseChar(c) ==
    IF (c >= 65 /\ c <= 90) \/ (c >= 65313 /\ c <= 65338) THEN c + 32 ELSE c

toLowerCase(s) == [i \in 1 .. Len(s) |-> toLowerCaseChar(s[i])]

RECURSIVE TrimStart(_)
TrimStart(s) ==
    IF s # <<>> /\ IsSpace(Head(s)) THEN TrimStart(Tail(s)) ELSE s

RECURSIVE TrimEnd(_)
TrimEnd(s) ==
    IF s # <<>> /\ IsSpace(s[Len(s)]) THEN TrimEnd(SubSeq(s, 1, Len(s) - 1)) ELSE s

\* String.prototype.trim
Trim(s) == TrimEnd(TrimStart(s))

\* s.replace(/\s+/g, " ") : every maximal run of whitespace becomes one U+0020
RECURSIVE CollapseWs(_)
CollapseWs(s) ==
    IF s = <<>> THEN <<>>
    ELSE IF IsSpace(Head(s))
         THEN <<32>> \o CollapseWs(TrimStart(s))
         ELSE <<Head(s)>> \o CollapseWs(Tail(s))

\* s.replace(/\s+/g, "") : whitespace removed
RemoveWs(s) == SelectSeq(s, LAMBDA c : ~IsSpace(c))

\* s.includes(t)
Includes(s, t) ==
    \E i \in 0 .. (Len(s) - Len(t)) : SubSeq(s, i + 1, i + Len(t)) = t

\* s.split(" ").filter(Boolean) : the non-empty pieces between U+0020
RECURSIVE SplitTerms(_)
SplitTerms(s) ==
    IF s = <<>> THEN <<>>
    ELSE IF Head(s) = 32 THEN SplitTerms(Tail(s))
    ELSE LET n == IF \E i \in 1 .. Len(s) : s[i] = 32
                  THEN (CHOOSE i \in 1 .. Len(s) :
                            s[i] = 32 /\ \A j \in 1 .. (i - 1) : s[j] # 32) - 1
                  ELSE Len(s)
         IN <<SubSeq(s, 1, n)>> \o SplitTerms(SubSeq(s, n + 1, Len(s)))

\* parts.join(" ")
RECURSIVE JoinSpace(_)
JoinSpace(parts) ==
    IF parts = <<>> THEN <<>>
    ELSE IF Len(parts) = 1 THEN parts[1]
    ELSE parts[1] \o <<32>> \o JoinSpace(Tail(parts))

-----------------------------------------------------------------------------
(* docs/app.js : normalizeText *)

\* [０-９] -> ASCII digit (code - 0xFEE0)
FoldDigit(c) == IF c >= 65296 /\ c <= 65305 THEN c - 65248 ELSE c
FoldDigits(s) == [i \in 1 .. Len(s) |-> FoldDigit(s[i])]

\* [－ー―−‐ｰ–—] -> "-"
HyphenVariants == {65293, 12540, 8213, 8722, 8208, 65392, 8211, 8212}
FoldHyphen(c) == IF c \in HyphenVariants THEN 45 ELSE c
FoldHyphens(s) == [i \in 1 .. Len(s) |-> FoldHyphen(s[i])]

\* U+3000 -> U+0020
FoldIdeographicSpace(c) == IF c = 12288 THEN 32 ELSE c
FoldIdeographicSpaces(s) == [i \in 1 .. Len(s) |-> FoldIdeographicSpace(s[i])]

\* a normalizer that merges whitespace two characters at a time
\* (/\s\s/g instead of /\s+/g)
RECURSIVE CollapseWsPairs(_)
CollapseWsPairs(s) ==
    IF Len(s) < 2 THEN s
    ELSE IF IsSpace(s[1]) /\ IsSpace(s[2])
         THEN <<32>> \o CollapseWsPairs(SubSeq(s, 3, Len(s)))
         ELSE <<s[1]>> \o CollapseWsPairs(Tail(s))

normalizeText_pairs(s) ==
    LET s1 == toLowerCase(OrEmpty(s))
        s2 == FoldDigits(s1)
        s3 == FoldHyphens(s2)
        s4 == FoldIdeographicSpaces(s3)
    IN CollapseWsPairs(s4)

\* a normalizer that leaves full-width digits alone
normalizeText_nodigits(s) ==
    LET s1 == toLowerCase(OrEmpty(s))
        s3 == FoldHyphens(s1)
        s4 == FoldIdeographicSpaces(s3)
    IN Trim(CollapseWs(s4))

normalizeText(s) ==
    LET s1 == toLowerCase(OrEmpty(s))
        s2 == FoldDigits(s1)
        s3 == FoldHyphens(s2)
        s4 == FoldIdeographicSpaces(s3)
        s5 == CollapseWs(s4)
    IN Trim(s5)

(* line_bot : normalizeText *)
botNormalizeText(s) == Trim(CollapseWs(toLowerCase(OrEmpty(s))))

-----------------------------------------------------------------------------
(* docs/app.js : constants, records, sanitizer, blob builder *)

\* const RESULTS_STEP = 200
RESULTS_STEP == 200

\* renderResults(DATA.slice(0, 50), 50, false)
PREVIEW_ROWS == 50

\* const PREF_ORDER = [...]  (north -> south)
PREF_ORDER == <<
    <<21271, 28023, 36947>>,
    <<38738, 26862, 30476>>,
    <<23721, 25163, 30476>>,
    <<23470, 22478, 30476>>,
    <<31179, 30000, 30476>>,
    <<23665, 24418, 30476>>,
    <<31119, 23798, 30476>>,
    <<33576, 22478, 30476>>,
    <<26627, 26408, 30476>>,
    <<32676, 39340, 30476>>,
    <<22524, 29577, 30476>>,
    <<21315, 33865, 30476>>,
    <<26481, 20140, 37117>>,
    <<31070, 22856, 24029, 30476>>,
    <<26032, 28511, 30476>>,
    <<23500, 23665, 30476>>,
    <<30707, 24029, 30476>>,
    <<31119, 20117, 30476>>,
    <<23665, 26792, 30476>>,
    <<38263, 37326, 30476>>,
    <<23696, 38428, 30476>>,
    <<38745, 23713, 30476>>,
    <<24859, 30693, 30476>>,
    <<19977, 37325, 30476>>,
    <<28363, 36032, 30476>>,
    <<20140, 37117, 24220>>,
    <<22823, 38442, 24220>>,
    <<20853, 24235, 30476>>,
    <<22856, 33391, 30476>>,
    <<21644, 27468, 23665, 30476>>,
    <<40165, 21462, 30476>>,
    <<23798, 26681, 30476>>,
    <<23713, 23665, 30476>>,
    <<24195, 23798, 30476>>,
    <<23665, 21475, 30476>>,
    <<24499, 23798, 30476>>,
    <<39321, 24029, 30476>>,
    <<24859, 23195, 30476>>,
    <<39640, 30693, 30476>>,
    <<31119, 23713, 30476>>,
    <<20304, 36032, 30476>>,
    <<38263, 23822, 30476>>,
    <<29066, 26412, 30476>>,
    <<22823, 20998, 30476>>,
    <<23470, 23822, 30476>>,
    <<40575, 20816, 23798, 30476>>,
    <<27798, 32260, 30476>> >>

\* PREF_RANK.has(p)
PREF_RANK_has(p) == \E i \in 1 .. Len(PREF_ORDER) : PREF_ORDER[i] = p

\* PREF_RANK.get(p) : the 0-based index of p in PREF_ORDER
PREF_RANK_get(p) == (CHOOSE i \in 1 .. Len(PREF_ORDER) : PREF_ORDER[i] = p) - 1

\* the sort key of an unknown name
UNKNOWN_RANK == 999

\* the literals "要" and "有", and "nan"
YO == <<35201>>
ARI == <<26377>>
NAN == <<110, 97, 110>>

\* r.k : undefined when the record has no such property
Get(r, k) == IF k \in DOMAIN r THEN r[k] ELSE Undefined

\* the keys init() sanitizes
KnownKeys ==
    {"pref", "muni", "name", "addr", "tel", "url", "hours", "privacy",
     "callAhead", "afterHours", "afterHoursTel", "notes"}

\* the keys buildSearchBlob reads, in order
BlobKeys == <<"pref", "muni", "name", "addr", "tel", "url">>

\* a sanitizer that forgets the sentinel
cleanValue_keepsNan(v) ==
    IF IsNullish(v) THEN <<>> ELSE Trim(FoldIdeographicSpaces(v))

cleanValue(v) ==
    IF IsNullish(v) THEN <<>>
    ELSE LET s == Trim(FoldIdeographicSpaces(v))
         IN IF toLowerCase(s) = NAN THEN <<>> ELSE s

\* [r.pref, ..., r.url].map(cleanValue).filter(Boolean)
BlobParts(r) ==
    SelectSeq([i \in 1 .. Len(BlobKeys) |-> cleanValue(Get(r, BlobKeys[i]))],
              LAMBDA s : s # <<>>)

buildSearchBlob(r) == normalizeText(JoinSpace(BlobParts(r)))

\* the record init() builds from a raw record r: a copy with every known key
\* that is present sanitized, and _blob added
LoadRecord(r) ==
    LET rr == [k \in DOMAIN r |-> IF k \in KnownKeys THEN cleanValue(r[k]) ELSE r[k]]
    IN [k \in (DOMAIN rr) \cup {"_blob"} |->
            IF k = "_blob" THEN buildSearchBlob(rr) ELSE rr[k]]

\* data.json: an object that has a "data" array, or has none
JsonWith(data) == [hasData |-> TRUE, data |-> data]
JsonWithoutData == [hasData |-> FALSE, data |-> <<>>]

\* DATA = (json.data || []).map(...)
LoadData(file) ==
    IF file.hasData THEN [i \in 1 .. Len(file.data) |-> LoadRecord(file.data[i])]
    ELSE <<>>

-----------------------------------------------------------------------------
(* docs/app.js : fillPrefOptions *)

\* Array.from(new Set(xs)) : first occurrences, in order
Distinct(xs) ==
    LET firsts == SelectSeq([i \in 1 .. Len(xs) |-> i],
                            LAMBDA i : \A j \in 1 .. (i - 1) : xs[j] # xs[i])
    IN [k \in 1 .. Len(firsts) |-> xs[firsts[k]]]

\* a.localeCompare(b, "ja") as -1, 0, 1.  Modelled on the names the model
\* uses for unexpected prefectures (lower-case ASCII and plain hiragana),
\* where Japanese collation agrees with code-unit order.
RECURSIVE localeCompareJa(_, _)
localeCompareJa(a, b) ==
    IF a = <<>> /\ b = <<>> THEN 0
    ELSE IF a = <<>> THEN -1
    ELSE IF b = <<>> THEN 1
    ELSE IF Head(a) < Head(b) THEN -1
    ELSE IF Head(a) > Head(b) THEN 1
    ELSE localeCompareJa(Tail(a), Tail(b))

\* a comparator that forgets the canonical table
PrefCompare_localeOnly(a, b) == localeCompareJa(a, b)

\* the comparator given to prefs.sort
PrefCompare(a, b) ==
    LET ra == IF PREF_RANK_has(a) THEN PREF_RANK_get(a) ELSE UNKNOWN_RANK
        rb == IF PREF_RANK_has(b) THEN PREF_RANK_get(b) ELSE UNKNOWN_RANK
    IN IF ra # rb THEN ra - rb ELSE localeCompareJa(a, b)

\* Array.prototype.sort with PrefCompare (a stable insertion sort)
RECURSIVE InsertPref(_, _)
InsertPref(sorted, x) ==
    IF sorted = <<>> THEN <<x>>
    ELSE IF PrefCompare(x, Head(sorted)) < 0 THEN <<x>> \o sorted
    ELSE <<Head(sorted)>> \o InsertPref(Tail(sorted), x)

RECURSIVE SortPrefs(_)
SortPrefs(xs) ==
    IF xs = <<>> THEN <<>>
    ELSE InsertPref(SortPrefs(SubSeq(xs, 1, Len(xs) - 1)), xs[Len(xs)])

\* the option values fillPrefOptions appends after the first "(none)" option
fillPrefOptions(data) ==
    LET prefs == Distinct(SelectSeq([i \in 1 .. Len(data) |-> Get(data[i], "pref")],
                                    Truthy))
    IN SortPrefs(prefs)

-----------------------------------------------------------------------------
(* docs/app.js : doSearch, renderResults *)

\* the callback of DATA.filter in doSearch
RowPasses(r, pref, terms, ca, ah) ==
    IF pref # <<>> /\ Get(r, "pref") # pref THEN FALSE
    ELSE IF ca /\ OrEmpty(Get(r, "callAhead")) # YO THEN FALSE
    ELSE IF ah /\ OrEmpty(Get(r, "afterHours")) # ARI THEN FALSE
    ELSE IF terms = <<>> THEN TRUE
    ELSE \A i \in 1 .. Len(terms) : Includes(r["_blob"], terms[i])

\* a matcher that accepts a record as soon as one term occurs
doSearchRows_anyTerm(data, prefValue, qValue, ca, ah) ==
    LET pref == cleanValue(prefValue)
        terms == SplitTerms(normalizeText(qValue))
    IN SelectSeq(data, LAMBDA r :
           /\ RowPasses(r, pref, <<>>, ca, ah)
           /\ (terms = <<>> \/ \E i \in 1 .. Len(terms) : Includes(r["_blob"], terms[i])))

\* the rows doSearch computes from the controls
doSearchRows(data, prefValue, qValue, ca, ah) ==
    LET pref == cleanValue(prefValue)
        qn == normalizeText(qValue)
        terms == IF qn # <<>> THEN SplitTerms(qn) ELSE <<>>
    IN SelectSeq(data, LAMBDA r : RowPasses(r, pref, terms, ca, ah))

\* a doSearch that keeps the limit of the previous search
SearchLimit_keep(resetLimit, limit) == limit

\* if (resetLimit) CURRENT_LIMIT = RESULTS_STEP
SearchLimit(resetLimit, limit) == IF resetLimit THEN RESULTS_STEP ELSE limit

\* CURRENT_LIMIT = Math.min(CURRENT_LIMIT + RESULTS_STEP, rows.length)
ShowMoreLimit(limit, n) == Min(limit + RESULTS_STEP, n)

\* #status texts
StatusInitial == [kind |-> "initial", total |-> 0, shown |-> 0]
StatusNone == [kind |-> "none", total |-> 0, shown |-> 0]
StatusHits(n, k) == [kind |-> "hits", total |-> n, shown |-> k]
StatusLoaded(n) == [kind |-> "loaded", total |-> n, shown |-> 0]
StatusFailed == [kind |-> "failed", total |-> 0, shown |-> 0]

\* rows.slice(0, limit)
Slice(rows, limit) == SubSeq(rows, 1, Min(limit, Len(rows)))

\* if (show.length < rows.length) ... append the "show more" button
PagerNeeded(shown, n) == shown < n

\* renderResults(rows, limit, updateStatus): the DOM it leaves
renderResults(rows, limit, updateStatus) ==
    /\ list' = IF rows = <<>> THEN <<>> ELSE Slice(rows, limit)
    /\ pagerBtn' = (rows # <<>> /\ PagerNeeded(Len(Slice(rows, limit)), Len(rows)))
    /\ pagerRows' = IF rows # <<>> /\ PagerNeeded(Len(Slice(rows, limit)), Len(rows))
                    THEN rows ELSE <<>>
    /\ updateStatus =>
         status' = IF rows = <<>> THEN StatusNone
                   ELSE StatusHits(Len(rows), Len(Slice(rows, limit)))

\* doSearch(resetLimit), run with the controls holding the given values
doSearch(resetLimit) ==
    LET rows == doSearchRows(DATA, prefSelect', q', onlyCallAhead', onlyAfterHours')
    IN /\ CURRENT_ROWS' = rows
       /\ CURRENT_LIMIT' = SearchLimit(resetLimit, CURRENT_LIMIT)
       /\ renderResults(rows, SearchLimit(resetLimit, CURRENT_LIMIT), TRUE)
       /\ UNCHANGED <<json, loadState, DATA, prefOptions>>

-----------------------------------------------------------------------------
(* Snapshots the web page may be served *)

\* "東京都", "東京", "大阪府", "北海道", "沖縄県", "京都府"
TOKYO == <<26481, 20140, 37117>>
TOKYO_SHORT == <<26481, 20140>>
OSAKA == <<22823, 38442, 24220>>
HOKKAIDO == <<21271, 28023, 36947>>
OKINAWA == <<27798, 32260, 30476>>
KYOTO == <<20140, 37117, 24220>>
\* two names that are not in PREF_ORDER: "ふめい", "かい"
FUMEI == <<12405, 12417, 12356>>
KAI == <<12363, 12356>>

\* "　東京都" / "A" / "０３ー１" / call-ahead
W1 == [pref |-> <<12288>> \o TOKYO, name |-> <<65>>,
       tel |-> <<65296, 65299, 12540, 65297>>, callAhead |-> YO, afterHours |-> Null]
\* "東京都" / "b" / url "NaN" / after-hours
W2 == [pref |-> TOKYO, name |-> <<98>>, url |-> <<78, 97, 78>>,
       callAhead |-> <<>>, afterHours |-> ARI]
\* "東京" (no suffix) / "a　b" / call-ahead
W3 == [pref |-> TOKYO_SHORT, name |-> <<97, 12288, 98>>, callAhead |-> YO]
\* "大阪府" / " nan " / notes " NAN" / call-ahead / after-hours
W4 == [pref |-> OSAKA, name |-> <<32, 110, 97, 110, 32>>, notes |-> <<32, 78, 65, 78>>,
       callAhead |-> YO, afterHours |-> ARI]
\* no prefecture / "c"
W5 == [name |-> <<99>>]
\* "ふめい" / "a"
W6 == [pref |-> FUMEI, name |-> <<97>>]
\* "かい" / tel "03-1"
W7 == [pref |-> KAI, tel |-> <<48, 51, 45, 49>>]
\* "沖縄県" / "b"
W8 == [pref |-> OKINAWA, name |-> <<98>>]
\* "北海道" / muni null / "ab"
W9 == [pref |-> HOKKAIDO, muni |-> Null, name |-> <<97, 98>>]

\* the records snapshots are enumerated over
WebPool == {W1, W2, W3, W4, W5, W6}

\* three Tokyo records (two call-ahead) and one Osaka record
EndToEndFixture == <<W1, W2, W1, W4>>
\* {"沖縄県", "北海道", "東京都"}
PrefFixture == <<W8, W9, W2>>
\* canonical and unexpected names mixed
MixedPrefFixture == <<W6, W8, W7, W9, W1, W4>>

\* a large snapshot: prefectures, names and call-ahead flags in rotation
BigRecord(i) ==
    [pref |-> IF i % 3 = 1 THEN TOKYO ELSE IF i % 3 = 2 THEN OSAKA ELSE HOKKAIDO,
     name |-> IF i % 5 = 0 THEN <<97>> ELSE <<98>>,
     callAhead |-> IF i % 2 = 0 THEN YO ELSE <<>>]

BigSnapshot(n) == [i \in 1 .. n |-> BigRecord(i)]

Snapshots ==
    {JsonWith(d) : d \in SeqsUpTo(WebPool, MaxRecs)
                        \cup {EndToEndFixture, PrefFixture, MixedPrefFixture,
                              BigSnapshot(RESULTS_STEP + 1)}}
        \cup {JsonWithoutData}

PagedSnapshots ==
    {JsonWith(BigSnapshot(n)) : n \in {RESULTS_STEP, RESULTS_STEP + 1, BigN}}

\* what the user may type into #q: "", "A", "a　b", "０３−１", "  "
Queries ==
    {<<>>, <<65>>, <<97, 12288, 98>>, <<65296, 65299, 8722, 65297>>, <<32, 32>>}

-----------------------------------------------------------------------------
(* docs/app.js : the page as a state machine.  The initial state is the    *)
(* one the DOMContentLoaded handler leaves: init() has started and is      *)
(* suspended at its fetch, and every listener is registered.               *)

WebStart(snapshots) ==
    /\ json \in snapshots
    /\ loadState = "pending"
    /\ DATA = <<>>
    /\ CURRENT_ROWS = <<>>
    /\ CURRENT_LIMIT = RESULTS_STEP
    /\ prefOptions = <<>>
    /\ prefSelect = <<>>
    /\ q = <<>>
    /\ onlyCallAhead = FALSE
    /\ onlyAfterHours = FALSE
    /\ list = <<>>
    /\ pagerBtn = FALSE
    /\ pagerRows = <<>>
    /\ status = StatusInitial

\* init() resumes after its awaits and runs to its end
LoadDone ==
    /\ loadState = "pending"
    /\ loadState' = "done"
    /\ DATA' = LoadData(json)
    /\ prefOptions' = fillPrefOptions(DATA')
    /\ renderResults(Slice(DATA', PREVIEW_ROWS), PREVIEW_ROWS, FALSE)
    /\ status' = StatusLoaded(Len(DATA'))
    /\ UNCHANGED <<json, CURRENT_ROWS, CURRENT_LIMIT, prefSelect, q,
                   onlyCallAhead, onlyAfterHours>>

\* fetch or resp.json() rejects: the catch branch of init()
LoadFail ==
    /\ loadState = "pending"
    /\ loadState' = "failed"
    /\ status' = StatusFailed
    /\ UNCHANGED <<json, DATA, CURRENT_ROWS, CURRENT_LIMIT, prefOptions, prefSelect,
                   q, onlyCallAhead, onlyAfterHours, list, pagerBtn, pagerRows>>

\* the user edits #q (no listener runs a search)
TypeQuery ==
    /\ \E t \in Queries : t # q /\ q' = t
    /\ UNCHANGED <<json, loadState, DATA, CURRENT_ROWS, CURRENT_LIMIT, prefOptions,
                   prefSelect, onlyCallAhead, onlyAfterHours, list, pagerBtn,
                   pagerRows, status>>

\* #btnSearch click
BtnSearch ==
    /\ UNCHANGED <<prefSelect, q, onlyCallAhead, onlyAfterHours>>
    /\ doSearch(TRUE)

\* #q keydown with key "Enter"
EnterKey ==
    /\ UNCHANGED <<prefSelect, q, onlyCallAhead, onlyAfterHours>>
    /\ doSearch(TRUE)

\* #btnClear click
BtnClear ==
    /\ q' = <<>>
    /\ prefSelect' = <<>>
    /\ onlyCallAhead' = FALSE
    /\ onlyAfterHours' = FALSE
    /\ doSearch(TRUE)

\* #prefSelect change: the user picks another option
PrefChange ==
    /\ \E p \in {<<>>} \cup {prefOptions[i] : i \in 1 .. Len(prefOptions)} :
          p # prefSelect /\ prefSelect' = p
    /\ UNCHANGED <<q, onlyCallAhead, onlyAfterHours>>
    /\ doSearch(TRUE)

\* #onlyCallAhead change
CallAheadChange ==
    /\ onlyCallAhead' = ~onlyCallAhead
    /\ UNCHANGED <<prefSelect, q, onlyAfterHours>>
    /\ doSearch(TRUE)

\* #onlyAfterHours change
AfterHoursChange ==
    /\ onlyAfterHours' = ~onlyAfterHours
    /\ UNCHANGED <<prefSelect, q, onlyCallAhead>>
    /\ doSearch(TRUE)

\* click on the "show more" button that renderResults appended
ShowMore ==
    /\ pagerBtn
    /\ CURRENT_LIMIT' = ShowMoreLimit(CURRENT_LIMIT, Len(pagerRows))
    /\ renderResults(pagerRows, CURRENT_LIMIT', TRUE)
    /\ UNCHANGED <<json, loadState, DATA, CURRENT_ROWS, prefOptions, prefSelect, q,
                   onlyCallAhead, onlyAfterHours>>

\* any handler that runs doSearch
SearchStep ==
    BtnSearch \/ EnterKey \/ BtnClear \/ PrefChange \/ CallAheadChange \/ AfterHoursChange

WebNext ==
    \/ LoadDone /\ UNCHANGED <<normVars, botVars>>
    \/ LoadFail /\ UNCHANGED <<normVars, botVars>>
    \/ TypeQuery /\ UNCHANGED <<normVars, botVars>>
    \/ BtnSearch /\ UNCHANGED <<normVars, botVars>>
    \/ EnterKey /\ UNCHANGED <<normVars, botVars>>
    \/ BtnClear /\ UNCHANGED <<normVars, botVars>>
    \/ PrefChange /\ UNCHANGED <<normVars, botVars>>
    \/ CallAheadChange /\ UNCHANGED <<normVars, botVars>>
    \/ AfterHoursChange /\ UNCHANGED <<normVars, botVars>>
    \/ ShowMore /\ UNCHANGED <<normVars, botVars>>

-----------------------------------------------------------------------------
(* line_bot : data load, detectPref, search, formatResult, handleEvent *)

\* rows.slice(0, 5)
TOP_N == 5

\* ["help", "使い方", "ヘルプ", "？", "?"]
HELP_TOKENS ==
    {<<104, 101, 108, 112>>, <<20351, 12356, 26041>>, <<12504, 12523, 12503>>,
     <<65311>>, <<63>>}

\* the keys the bot's blob reads, in order
BotBlobKeys == <<"pref", "muni", "name", "addr">>

\* _blob: normalizeText([r.pref, r.muni, r.name, r.addr].filter(Boolean).join(" "))
botBlob(r) ==
    botNormalizeText(JoinSpace(
        SelectSeq([i \in 1 .. Len(BotBlobKeys) |-> Get(r, BotBlobKeys[i])], Truthy)))

\* DATA = (DB.data || []).map(r => ({...r, _blob: ...}))
BotLoadData(file) ==
    IF file.hasData
    THEN [i \in 1 .. Len(file.data) |->
            [k \in (DOMAIN file.data[i]) \cup {"_blob"} |->
                IF k = "_blob" THEN botBlob(file.data[i]) ELSE file.data[i][k]]]
    ELSE <<>>

\* PREFS = Array.from(new Set(DATA.map(r => r.pref))).filter(Boolean)
BotPrefs(data) ==
    SelectSeq(Distinct([i \in 1 .. Len(data) |-> Get(data[i], "pref")]), Truthy)

\* p.replace(/[都道府県]$/, "")
StripSuffix(p) ==
    IF p # <<>> /\ p[Len(p)] \in {37117, 36947, 24220, 30476}
    THEN SubSeq(p, 1, Len(p) - 1) ELSE p

\* the test of the loop body of detectPref
PrefOccurs(t, p) ==
    Includes(t, p) \/ (StripSuffix(p) # <<>> /\ Includes(t, StripSuffix(p)))

\* detectPref(text): the first prefecture of prefs that occurs, or ""
detectPref(prefs, text) ==
    LET t == RemoveWs(text)
    IN IF \E i \in 1 .. Len(prefs) : PrefOccurs(t, prefs[i])
       THEN prefs[CHOOSE i \in 1 .. Len(prefs) :
                    /\ PrefOccurs(t, prefs[i])
                    /\ \A j \in 1 .. (i - 1) : ~PrefOccurs(t, prefs[j])]
       ELSE <<>>

\* the rows of search(text) before the final slice
searchRows(data, prefs, text) ==
    LET pref == detectPref(prefs, text)
        terms == SplitTerms(botNormalizeText(text))
        rows1 == IF pref # <<>>
                 THEN SelectSeq(data, LAMBDA r : Get(r, "pref") = pref)
                 ELSE data
        terms2 == SelectSeq(terms, LAMBDA t :
                      ~(pref # <<>> /\ (t = toLowerCase(pref)
                                         \/ t = toLowerCase(StripSuffix(pref)))))
    IN IF terms2 # <<>>
       THEN SelectSeq(rows1, LAMBDA r :
                \A i \in 1 .. Len(terms2) : Includes(r["_blob"], terms2[i]))
       ELSE rows1

\* a search that returns every matching row
search_uncapped(data, prefs, text) == searchRows(data, prefs, text)

\* search(text)
search(data, prefs, text) == Slice(searchRows(data, prefs, text), TOP_N)

\* parts.filter(Boolean).join("\n")
RECURSIVE JoinLines(_)
JoinLines(parts) ==
    IF parts = <<>> THEN <<>>
    ELSE IF Len(parts) = 1 THEN parts[1]
    ELSE parts[1] \o <<10>> \o JoinLines(Tail(parts))

NonEmpty(s) == s # <<>>

\* formatResult(r): the text block of one record
formatResult(r) ==
    LET tel == IF Truthy(Get(r, "tel")) THEN <<55357, 56542, 32>> \o r["tel"] ELSE <<>>
        url == IF Truthy(Get(r, "url")) THEN <<55357, 56599, 32>> \o r["url"] ELSE <<>>
        callAhead == IF OrEmpty(Get(r, "callAhead")) = YO
                     THEN <<65288, 20107, 21069, 38651, 35441, 65306, 35201, 65289>>
                     ELSE <<>>
        line1 == <<55356, 57317, 32>> \o OrEmpty(Get(r, "name")) \o <<32>> \o callAhead
        line2 == OrEmpty(Get(r, "pref"))
                    \o (IF Truthy(Get(r, "muni")) THEN <<32>> \o r["muni"] ELSE <<>>)
        line3 == OrEmpty(Get(r, "addr"))
        line4 == JoinLines(SelectSeq(<<tel, url>>, NonEmpty))
    IN JoinLines(SelectSeq(<<line1, line2, line3, line4>>, NonEmpty))

\* what client.replyMessage is given: the kind of text, the number on the
\* "上位 N 件" line (0 when the text has no such line), and the entry blocks
ReplyNothing == [kind |-> "nothing", count |-> 0, entries |-> <<>>]
ReplyHelp == [kind |-> "help", count |-> 0, entries |-> <<>>]
ReplyNotFound == [kind |-> "notfound", count |-> 0, entries |-> <<>>]
ReplyResults(rows) ==
    [kind |-> "results", count |-> Len(rows),
     entries |-> [i \in 1 .. Len(rows) |-> formatResult(rows[i])]]

-----------------------------------------------------------------------------
(* Snapshots and events of the bot *)

\* "港区"
MINATO == <<28207, 21306>>

\* "東京都" "港区" "A" / tel "03-1" / call-ahead
B1 == [pref |-> TOKYO, muni |-> MINATO, name |-> <<65>>, tel |-> <<48, 51, 45, 49>>,
       callAhead |-> YO]
\* "京都府" "b"
B2 == [pref |-> KYOTO, name |-> <<98>>]
\* "大阪府" "a?" / url "u"
B3 == [pref |-> OSAKA, name |-> <<97, 63>>, url |-> <<117>>]
\* pref null / "a"
B4 == [pref |-> Null, name |-> <<97>>]

BotPool == {B1, B2, B3, B4}

\* twelve (BotBigN) Tokyo records
BotBigSnapshot == [i \in 1 .. BotBigN |-> B1]

BotSnapshots ==
    {JsonWith(d) : d \in SeqsUpTo(BotPool, MaxBotRecs) \cup {BotBigSnapshot}}
        \cup {JsonWithoutData}

\* message texts: "東京都", "東京", "京都", " 東京　港区 ", "a", "A B", "03-1",
\* "大阪 a", "help", "?", "  ", "", and a message without text
BotTexts ==
    {TOKYO, TOKYO_SHORT, <<20140, 37117>>, <<32>> \o TOKYO_SHORT \o <<12288>> \o MINATO \o <<32>>,
     <<97>>, <<65, 32, 66>>, <<48, 51, 45, 49>>, <<22823, 38442, 32, 97>>,
     <<104, 101, 108, 112>>, <<63>>, <<32, 32>>, <<>>, Null}

BotStart ==
    /\ \E file \in BotSnapshots :
          /\ botDATA = BotLoadData(file)
          /\ PREFS = BotPrefs(BotLoadData(file))
    /\ event = [type |-> "none", mtype |-> "none", text |-> <<>>]
    /\ detected = <<>>
    /\ hits = <<>>
    /\ reply = ReplyNothing

\* handleEvent on an event that is not a text message: returns at once
HandleOtherEvent ==
    /\ \E e \in {[type |-> "follow", mtype |-> "none", text |-> <<>>],
                 [type |-> "message", mtype |-> "sticker", text |-> <<>>]} : event' = e
    /\ detected' = <<>>
    /\ hits' = <<>>
    /\ reply' = ReplyNothing
    /\ UNCHANGED <<botDATA, PREFS>>

\* handleEvent on a text message
HandleTextMessage ==
    /\ \E raw \in BotTexts : event' = [type |-> "message", mtype |-> "text", text |-> raw]
    /\ LET text == Trim(OrEmpty(event'.text))
       IN IF text = <<>>
          THEN detected' = <<>> /\ hits' = <<>> /\ reply' = ReplyNothing
          ELSE IF text \in HELP_TOKENS
          THEN detected' = <<>> /\ hits' = <<>> /\ reply' = ReplyHelp
          ELSE /\ detected' = detectPref(PREFS, text)
               /\ hits' = search(botDATA, PREFS, text)
               /\ reply' = IF hits' = <<>> THEN ReplyNotFound ELSE ReplyResults(hits')
    /\ UNCHANGED <<botDATA, PREFS>>

BotNext ==
    \/ HandleOtherEvent /\ UNCHANGED <<normVars, webVars>>
    \/ HandleTextMessage /\ UNCHANGED <<normVars, webVars>>

BotIdle ==
    /\ botDATA = <<>>
    /\ PREFS = <<>>
    /\ event = [type |-> "none", mtype |-> "none", text |-> <<>>]
    /\ detected = <<>>
    /\ hits = <<>>
    /\ reply = ReplyNothing

-----------------------------------------------------------------------------
(* Specifications *)

\* the components that a specification does not run
WebIdle == WebStart({JsonWithoutData})
NormIdle == nWhich = "web" /\ nOrig = <<>> /\ nText = <<>> /\ nSteps = 0

\* the web page on small snapshots
Init == WebStart(Snapshots) /\ NormIdle /\ BotIdle
Spec == Init /\ [][WebNext]_vars

\* the web page on large snapshots
PagedInit == WebStart(PagedSnapshots) /\ NormIdle /\ BotIdle
SpecPaged == PagedInit /\ [][WebNext]_vars

\* the bot
BotInit == BotStart /\ NormIdle /\ WebIdle
SpecBot == BotInit /\ [][BotNext]_vars

-----------------------------------------------------------------------------
(* Normalizer harness: the normalizer applied once and then again to its   *)
(* own output, on every string up to MaxLen over NormAlphabet, on null and  *)
(* undefined, and on the named sample strings.                              *)

\* A, a, full-width A, full-width 1, 1, katakana prolonged sound mark, "-",
\* space, ideographic space, tab, and a kanji
NormAlphabet == {65, 97, 65313, 65297, 49, 12540, 45, 32, 12288, 9, 26481}

\* "ＴＯＫＹＯ", "ｔｏｋｙｏ", "TOKYO", "tokyo", "１２３", "123"
FullWidthUpperTokyo == <<65332, 65327, 65323, 65337, 65327>>
FullWidthLowerTokyo == <<65364, 65359, 65355, 65369, 65359>>
AsciiUpperTokyo == <<84, 79, 75, 89, 79>>
AsciiLowerTokyo == <<116, 111, 107, 121, 111>>
FullWidthDigits123 == <<65297, 65298, 65299>>
AsciiDigits123 == <<49, 50, 51>>

NormSamples ==
    {FullWidthUpperTokyo, FullWidthLowerTokyo, AsciiUpperTokyo, AsciiLowerTokyo,
     FullWidthDigits123, AsciiDigits123}

NormInputs == SeqsUpTo(NormAlphabet, MaxLen) \cup NormSamples \cup {Null, Undefined}

ApplyNormalizer(which, s) ==
    IF which = "web" THEN normalizeText(s) ELSE botNormalizeText(s)

NormInit ==
    /\ nWhich \in {"web", "bot"}
    /\ nOrig \in NormInputs
    /\ nText = nOrig
    /\ nSteps = 0
    /\ WebIdle
    /\ BotIdle

Normalize ==
    /\ nSteps < 2
    /\ nText' = ApplyNormalizer(nWhich, nText)
    /\ nSteps' = nSteps + 1
    /\ UNCHANGED <<nWhich, nOrig>>
    /\ UNCHANGED <<webVars, botVars>>

NormNext == Normalize

SpecNorm == NormInit /\ [][NormNext]_vars

-----------------------------------------------------------------------------
(* Properties of the web page *)

\* the whitespace-separated terms of a normalized text: its maximal
\* stretches without U+0020
TermsOf(qn) ==
    {SubSeq(qn, ij[1], ij[2]) :
        ij \in {x \in (1 .. Len(qn)) \X (1 .. Len(qn)) :
                  /\ x[1] <= x[2]
                  /\ \A k \in x[1] .. x[2] : qn[k] # 32
                  /\ (x[1] = 1 \/ qn[x[1] - 1] = 32)
                  /\ (x[2] = Len(qn) \/ qn[x[2] + 1] = 32)}}

\* a record passes every active filter: the selected prefecture, the two
\* toggles, and the terms of the normalized free text
PassesFilters(r, pref, terms, ca, ah) ==
    /\ pref # <<>> => ("pref" \in DOMAIN r /\ r["pref"] = pref)
    /\ ca => ("callAhead" \in DOMAIN r /\ r["callAhead"] = YO)
    /\ ah => ("afterHours" \in DOMAIN r /\ r["afterHours"] = ARI)
    /\ \A t \in terms : Includes(r["_blob"], t)

\* the subsequence of data, in order, of the records that pass
ExpectedRows(data, pref, text, ca, ah) ==
    LET terms == TermsOf(normalizeText(text))
    IN SelectSeq(data, LAMBDA r : PassesFilters(r, pref, terms, ca, ah))

\* C1: every search leaves as its result exactly the subsequence of DATA, in
\* original order, of the records that pass every active filter (prefecture
\* as an exact string, call-ahead "要", after-hours "有", every term of the
\* normalized free text a substring of _blob); with no active filter every
\* record is returned.
C1_MatcherExact ==
    [][SearchStep =>
          /\ CURRENT_ROWS' =
                ExpectedRows(DATA', prefSelect', q', onlyCallAhead', onlyAfterHours')
          /\ (prefSelect' = <<>> /\ ~onlyCallAhead' /\ ~onlyAfterHours'
                /\ TermsOf(normalizeText(q')) = {}) => CURRENT_ROWS' = DATA']_vars

\* C1 witness: on the three-Tokyo-one-Osaka snapshot a search by prefecture
\* "東京都" with the call-ahead toggle and a free text has returned the two
\* qualifying Tokyo records.
C1_Witness ==
    /\ json = JsonWith(EndToEndFixture)
    /\ loadState = "done"
    /\ prefSelect = TOKYO
    /\ onlyCallAhead
    /\ q = <<65>>
    /\ Len(CURRENT_ROWS) = 2
    /\ status = StatusHits(2, 2)

\* the state of the page shows the outcome of a search or of "show more"
ShowsSearch == status.kind = "hits"

C2_Counts ==
    ShowsSearch =>
        /\ status.total = Len(CURRENT_ROWS)
        /\ status.shown = Len(list)
        /\ Len(list) <= Len(CURRENT_ROWS)
        /\ list = SubSeq(CURRENT_ROWS, 1, Len(list))
        /\ pagerBtn <=> Len(list) < Len(CURRENT_ROWS)

\* C2: after a search with N > 0 results min(200, N) entries are rendered
\* and the status reports N and the rendered count; each "show more" click
\* raises the rendered count to min(previous + 200, N) over the same rows;
\* the control is present exactly when fewer than N entries are rendered,
\* so the rendered count never exceeds N.
C2_PagedPresenter ==
    /\ []C2_Counts
    /\ [][(SearchStep /\ CURRENT_ROWS' # <<>>) =>
             /\ Len(list') = Min(RESULTS_STEP, Len(CURRENT_ROWS'))
             /\ status' = StatusHits(Len(CURRENT_ROWS'), Len(list'))]_vars
    /\ [][ShowMore =>
             /\ CURRENT_ROWS' = CURRENT_ROWS
             /\ Len(list') = Min(Len(list) + RESULTS_STEP, Len(CURRENT_ROWS))
             /\ status' = StatusHits(Len(CURRENT_ROWS), Len(list'))]_vars

\* C2 witness: all rows of the large snapshot are rendered after two
\* "show more" clicks, and the control is gone.
C2_Witness ==
    /\ Len(CURRENT_ROWS) = BigN
    /\ BigN > 2 * RESULTS_STEP
    /\ CURRENT_LIMIT = BigN
    /\ Len(list) = BigN
    /\ ~pagerBtn
    /\ status = StatusHits(BigN, BigN)

\* the sanitized form of a raw value, as the claim words it
SanitizedForm(raw) ==
    IF IsNullish(raw) THEN <<>>
    ELSE LET t == Trim([i \in 1 .. Len(raw) |-> IF raw[i] = 12288 THEN 32 ELSE raw[i]])
         IN IF toLowerCase(t) = NAN THEN <<>> ELSE t

\* C6: once init has completed, every known text field present on a record
\* holds the trimmed form of the raw value with full-width spaces turned
\* into spaces, or "" when that equals "nan" in any letter case; no such
\* field holds "nan"; absent fields stay absent.
C6_SanitizedAfterLoad ==
    loadState = "done" =>
        /\ Len(DATA) = Len(json.data)
        /\ \A i \in 1 .. Len(DATA) : \A k \in KnownKeys :
              /\ (k \in DOMAIN DATA[i]) <=> (k \in DOMAIN json.data[i])
              /\ k \in DOMAIN DATA[i] =>
                    /\ DATA[i][k] = SanitizedForm(json.data[i][k])
                    /\ toLowerCase(DATA[i][k]) # NAN

\* C6 witness: a snapshot holding " nan ", " NAN" and "　東京都" has been loaded.
C6_Witness ==
    /\ loadState = "done"
    /\ json = JsonWith(<<W4, W1>>)
    /\ DATA[1]["name"] = <<>>
    /\ DATA[1]["notes"] = <<>>
    /\ DATA[2]["pref"] = TOKYO
    /\ "url" \notin DOMAIN DATA[2]

\* the prefecture names present in the loaded data
PrefsPresent ==
    {DATA[i]["pref"] : i \in {j \in 1 .. Len(DATA) :
                                "pref" \in DOMAIN DATA[j] /\ DATA[j]["pref"] # <<>>}}

InTable(p) == \E i \in 1 .. Len(PREF_ORDER) : PREF_ORDER[i] = p
TableRank(p) == CHOOSE i \in 1 .. Len(PREF_ORDER) : PREF_ORDER[i] = p

\* C7: the filter control lists each prefecture present once; names of the
\* canonical table come first, in table order; the other names follow, in
\* Japanese locale order; {"沖縄県","北海道","東京都"} gives
\* ["北海道","東京都","沖縄県"].
C7_PrefectureOrder ==
    loadState = "done" =>
        /\ {prefOptions[i] : i \in 1 .. Len(prefOptions)} = PrefsPresent
        /\ Len(prefOptions) = Cardinality(PrefsPresent)
        /\ \A i \in 1 .. Len(prefOptions) : \A j \in (i + 1) .. Len(prefOptions) :
              LET a == prefOptions[i]
                  b == prefOptions[j]
              IN /\ InTable(b) => InTable(a) /\ TableRank(a) < TableRank(b)
                 /\ (~InTable(a) /\ ~InTable(b)) => localeCompareJa(a, b) < 0
        /\ PrefsPresent = {OKINAWA, HOKKAIDO, TOKYO}
              => prefOptions = <<HOKKAIDO, TOKYO, OKINAWA>>

\* C7 witness: a snapshot mixing canonical and unexpected names, out of
\* order, has been loaded.
C7_Witness ==
    /\ loadState = "done"
    /\ json = JsonWith(MixedPrefFixture)
    /\ prefOptions = <<HOKKAIDO, TOKYO, OSAKA, OKINAWA, KAI, FUMEI>>

\* C10 as claimed: no search runs while the snapshot load is pending, and
\* the completion of the load does not replace the list or status that a
\* search has produced.
C10_LoadBeforeQuery ==
    [][/\ SearchStep => loadState # "pending"
       /\ LoadDone => status = StatusInitial]_vars

-----------------------------------------------------------------------------
(* Properties of the bot *)

\* the text handleEvent works on
EventText == Trim(OrEmpty(event.text))

\* handleEvent was given a text message that reaches search
Searched ==
    /\ event.type = "message"
    /\ event.mtype = "text"
    /\ EventText # <<>>
    /\ EventText \notin HELP_TOKENS

\* C3 as claimed: for every message text the reply holds exactly as many
\* entries as search returns for that text, the first min(5, M) of the M
\* matching records.
C3_TopFiveEveryText ==
    (event.type = "message" /\ event.mtype = "text") =>
        LET matching == searchRows(botDATA, PREFS, EventText)
        IN /\ Len(search(botDATA, PREFS, EventText)) = Min(TOP_N, Len(matching))
           /\ Len(reply.entries) = Min(TOP_N, Len(matching))

\* C3 amended: for every message text that is non-empty after trimming and
\* is not a help token, search returns the first min(5, M) of the M
\* matching records in data order; when that is not empty the reply holds
\* exactly that many formatted entries and its count line shows that
\* number; when it is empty the reply is the not-found text.
C3_TopFiveOfSearch ==
    Searched =>
        LET matching == searchRows(botDATA, PREFS, EventText)
            n == Min(TOP_N, Len(matching))
        IN /\ Len(hits) = n
           /\ n <= TOP_N
           /\ hits = SubSeq(matching, 1, n)
           /\ n > 0 => /\ reply.kind = "results"
                       /\ reply.count = n
                       /\ Len(reply.entries) = n
                       /\ \A i \in 1 .. n : reply.entries[i] = formatResult(matching[i])
           /\ n = 0 => reply = ReplyNotFound

\* C3 witness: "東京都" against twelve matching records has been answered
\* with five entries.
C3_Witness ==
    /\ Searched
    /\ event.text = TOKYO
    /\ Len(botDATA) = BotBigN
    /\ Len(searchRows(botDATA, PREFS, EventText)) = BotBigN
    /\ Len(hits) = TOP_N
    /\ reply.kind = "results"
    /\ reply.count = TOP_N
    /\ Len(reply.entries) = TOP_N

\* the prefectures of the data whose full name occurs in t, and those whose
\* name without its suffix occurs in t
FullNamed(t) == {PREFS[i] : i \in {j \in 1 .. Len(PREFS) : Includes(t, PREFS[j])}}
ShortNamed(t) ==
    {PREFS[i] : i \in {j \in 1 .. Len(PREFS) :
                          StripSuffix(PREFS[j]) # <<>> /\ Includes(t, StripSuffix(PREFS[j]))}}

\* C8 as claimed: when the message holds the full name of exactly one
\* prefecture p of the data (or, holding no full name, the suffix-less name
\* of exactly one), detectPref returns p whatever the order of the data, and
\* search returns only records of p.
C8_DetectsNamedPrefecture ==
    Searched =>
        LET t == RemoveWs(EventText)
        IN \A i \in 1 .. Len(PREFS) :
              (\/ FullNamed(t) = {PREFS[i]}
               \/ (FullNamed(t) = {} /\ ShortNamed(t) = {PREFS[i]}))
              => /\ detected = PREFS[i]
                 /\ \A k \in 1 .. Len(hits) : hits[k]["pref"] = PREFS[i]

\* the blob of the specification: the normalizer applied to the
\* single-space join of the sanitized non-empty pref, muni, name, addr,
\* tel, url
SpecifiedBlob(r) ==
    normalizeText(JoinSpace(SelectSeq(
        [i \in 1 .. Len(BlobKeys) |-> SanitizedForm(Get(r, BlobKeys[i]))], NonEmpty)))

\* C9 as claimed: in the web page and in the bot alike every loaded record's
\* _blob is the specified blob.
C9_BlobInvariant ==
    /\ \A i \in 1 .. Len(DATA) : DATA[i]["_blob"] = SpecifiedBlob(DATA[i])
    /\ \A i \in 1 .. Len(botDATA) : botDATA[i]["_blob"] = SpecifiedBlob(botDATA[i])

-----------------------------------------------------------------------------
(* Properties of the normalizer *)

\* C4: the text normalizer is idempotent: applying it to its own output
\* (for every input string, null and undefined; web page and bot alike)
\* gives that output again.
C4_NormalizerIdempotent ==
    nSteps = 2 => nText = ApplyNormalizer(nWhich, nOrig)

\* C4 witness: the normalizer has been applied twice to an input that the
\* first application changed.
C4_Witness ==
    /\ nSteps = 2
    /\ nWhich = "web"
    /\ nOrig = <<12288, 65, 12540>>
    /\ nText = <<97, 45>>

\* C5 as claimed: width of letters is folded, so full-width "ＴＯＫＹＯ"
\* normalizes to the same string as "tokyo", and "１２３" to "123".
C5_FoldsCaseAndWidth ==
    (nWhich = "web" /\ nSteps = 1) =>
        /\ (nOrig = FullWidthUpperTokyo => nText = normalizeText(AsciiLowerTokyo))
        /\ (nOrig = FullWidthDigits123 => nText = AsciiDigits123)

\* C5 amended: the normalizer folds the case of letters (ASCII and
\* full-width) and the width of digits only: "TOKYO" normalizes like
\* "tokyo", "ＴＯＫＹＯ" normalizes to "ｔｏｋｙｏ", which is not "tokyo", and
\* "１２３" normalizes to "123".
C5_FoldsCaseAndDigitWidth ==
    (nWhich = "web" /\ nSteps = 1) =>
        /\ (nOrig = AsciiUpperTokyo => nText = normalizeText(AsciiLowerTokyo))
        /\ (nOrig = AsciiLowerTokyo => nText = AsciiLowerTokyo)
        /\ (nOrig = FullWidthUpperTokyo =>
                nText = FullWidthLowerTokyo /\ nText # AsciiLowerTokyo)
        /\ (nOrig = FullWidthDigits123 => nText = AsciiDigits123)

\* C5 witness: the web normalizer has been applied to "１２３".
C5_Witness ==
    nWhich = "web" /\ nSteps = 1 /\ nOrig = FullWidthDigits123 /\ nText = AsciiDigits123

====
